---- MODULE Spec2Model ----
(***************************************************************************)
(* Model of server.js: the keyword scoring (scoreProject), the ranking     *)
(* (getTopContext) and the POST /api/chat handler with its two response    *)
(* paths (local fallback, generation provider).                            *)
(*                                                                         *)
(* JavaScript values are tagged records: Undef, Null, Num(n), Str(s),      *)
(* Obj(name).  A string is a sequence of one-character strings.  An array  *)
(* of object references (projects, the result of getTopContext) is a       *)
(* sequence of positions into the catalog.                                 *)
(***************************************************************************)
EXTENDS Integers, Sequences, FiniteSets, TLC

VARIABLES
  projects,        \* server.js:22  the catalog
  loaded,          \* the catalog as the loader left it at startup (history)
  OPENAI_API_KEY,  \* server.js:13
  pc,              \* per request: "idle" (delivered, handler not yet run),
                   \* "awaiting" (suspended at line 91), "done"
  message,         \* per request: req.body.message
  completion,      \* per request: how the provider call ended
  response,        \* per request: the response sent (status + JSON body)
  contextProjects, \* per request: the handler's local of line 70 (catalog positions)
  projectSnippets, \* per request: the context block of line 73
  rankCalls,       \* per request: number of getTopContext invocations
  providerCalls,   \* per request: number of provider invocations
  query,           \* ranking harness: the query argument
  k,               \* ranking harness: the k argument
  project,         \* scoring harness: the record argument
  call             \* harness: the last call made and what it returned

vars == <<projects, loaded, OPENAI_API_KEY, pc, message, completion, response,
          contextProjects, projectSnippets, rankCalls, providerCalls, query, k, project, call>>

serverVars == <<projects, loaded, OPENAI_API_KEY, pc, message, completion,
                response, contextProjects, projectSnippets, rankCalls,
                providerCalls>>

harnessVars == <<query, k, project, call>>

(***************************************************************************)
(* Bounds                                                                  *)
(***************************************************************************)
MaxQueryLen == 3      \* scoring harness: query length
MaxRankQueryLen == 2  \* ranking harness: query length
MaxCatalog == 3       \* ranking harness: catalog length
MaxK == 3             \* ranking harness: k ranges over -MaxK..MaxK
MaxServerCatalog == 2 \* chat handler: catalog length
NumRequests == 2      \* chat handler: concurrent requests

(***************************************************************************)
(* JavaScript values                                                       *)
(***************************************************************************)
Undef == [t |-> "undef"]

Null == [t |-> "null"]

Num(n) == [t |-> "num", v |-> n]

Str(s) == [t |-> "str", v |-> s]

Obj(n) == [t |-> "obj", name |-> n]

\* ToBoolean: undefined, null, 0 and '' are falsy
Truthy(x) ==
  CASE x.t = "undef" -> FALSE
    [] x.t = "null" -> FALSE
    [] x.t = "num" -> x.v # 0
    [] x.t = "str" -> x.v # <<>>
    [] OTHER -> TRUE

\* a || b
JsOr(a, b) == IF Truthy(a) THEN a ELSE b

\* typeof x === 'string'
IsString(x) == x.t = "str"

(***************************************************************************)
(* Strings                                                                 *)
(***************************************************************************)
Chars == {"a", "A", ".", " "}

IsSpace(c) == c = " "

LowerChar(c) == IF c = "A" THEN "a" ELSE c

toLowerCase(s) == [i \in 1..Len(s) |-> LowerChar(s[i])]

RECURSIVE join(_, _)
join(parts, sep) ==
  IF parts = <<>> THEN <<>>
  ELSE IF Len(parts) = 1 THEN parts[1]
  ELSE parts[1] \o sep \o join(Tail(parts), sep)

\* first position >= i of s that is not whitespace (Len(s)+1 if none)
RECURSIVE skipSpace(_, _)
skipSpace(s, i) ==
  IF i > Len(s) \/ ~IsSpace(s[i]) THEN i ELSE skipSpace(s, i + 1)

\* s.split(/\s+/) continued at position i, cur being the piece under way
RECURSIVE splitFrom(_, _, _)
splitFrom(s, i, cur) ==
  IF i > Len(s) THEN <<cur>>
  ELSE IF IsSpace(s[i]) THEN <<cur>> \o splitFrom(s, skipSpace(s, i), <<>>)
  ELSE splitFrom(s, i + 1, Append(cur, s[i]))

split(s) == splitFrom(s, 1, <<>>)

\* s.includes(sub)
includes(s, sub) ==
  \E i \in 0..(Len(s) - Len(sub)) :
    \A j \in 1..Len(sub) : s[i + j] = sub[j]

\* s.trim()
RECURSIVE trimEnd(_)
trimEnd(s) ==
  IF s # <<>> /\ IsSpace(s[Len(s)]) THEN trimEnd(SubSeq(s, 1, Len(s) - 1)) ELSE s

trim(s) == LET i == skipSpace(s, 1) IN trimEnd(SubSeq(s, i, Len(s)))

(***************************************************************************)
(* Regular expressions, as far as line 38 uses them.  A pattern is a       *)
(* sequence of atoms: [lit |-> c] matches the character c, [any |-> TRUE]  *)
(* (an unescaped dot) matches every character.                             *)
(***************************************************************************)
RegExpSpecial == {"."}

\* the term used as a pattern without escaping
escapeNothing(term) == term

\* term.replace(/[.*+?^${}()|[\]\\]/g, '\\$&')
RECURSIVE escapeRegExp(_)
escapeRegExp(term) ==
  IF term = <<>> THEN <<>>
  ELSE (IF term[1] \in RegExpSpecial THEN <<"\\", term[1]>> ELSE <<term[1]>>)
       \o escapeRegExp(Tail(term))

\* new RegExp(source, 'g')
RECURSIVE compileRegExp(_)
compileRegExp(source) ==
  IF source = <<>> THEN <<>>
  ELSE IF source[1] = "\\" /\ Len(source) >= 2
       THEN <<[any |-> FALSE, lit |-> source[2]]>>
            \o compileRegExp(SubSeq(source, 3, Len(source)))
  ELSE IF source[1] = "."
       THEN <<[any |-> TRUE, lit |-> "."]>> \o compileRegExp(Tail(source))
  ELSE <<[any |-> FALSE, lit |-> source[1]]>> \o compileRegExp(Tail(source))

matchesAt(text, pat, i) ==
  /\ i + Len(pat) - 1 <= Len(text)
  /\ \A j \in 1..Len(pat) : pat[j].any \/ text[i + j - 1] = pat[j].lit

\* (text.match(re) || []).length for a global, non-empty pattern: the scan
\* resumes after the end of each match
RECURSIVE matchCountFrom(_, _, _)
matchCountFrom(text, pat, i) ==
  IF i > Len(text) THEN 0
  ELSE IF matchesAt(text, pat, i)
       THEN 1 + matchCountFrom(text, pat, i + Len(pat))
  ELSE matchCountFrom(text, pat, i + 1)

matchCount(text, pat) == matchCountFrom(text, pat, 1)

(***************************************************************************)
(* Project records (data/projects.json entries)                            *)
(***************************************************************************)
Arr(s) == [t |-> "arr", v |-> s]

PA ==
  [name |-> Str(<<"A", "a">>), description |-> Str(<<"a", ".">>),
   status |-> Str(<<"a">>), progress |-> Num(50),
   responsible |-> Obj(Str(<<"a">>)), lastUpdate |-> Str(<<".", "a">>),
   tags |-> Arr(<<Str(<<"a">>)>>),
   documents |-> Arr(<<[title |-> Str(<<"A">>)]>>)]

PB ==
  [name |-> Str(<<".">>), description |-> Str(<<"a", "a", "a">>),
   status |-> Str(<<".">>), progress |-> Num(0),
   responsible |-> Undef, lastUpdate |-> Undef,
   tags |-> Arr(<<>>), documents |-> Undef]

PC ==
  [name |-> Str(<<>>), description |-> Str(<<>>),
   status |-> Str(<<"a">>), progress |-> Undef,
   responsible |-> Obj(Str(<<>>)), lastUpdate |-> Str(<<>>),
   tags |-> Undef, documents |-> Arr(<<[title |-> Str(<<>>)]>>)]

PD ==
  [name |-> Str(<<"a">>), description |-> Str(<<"A", ".">>),
   status |-> Str(<<".">>), progress |-> Num(7),
   responsible |-> Obj(Undef), lastUpdate |-> Str(<<"a">>),
   tags |-> Arr(<<Str(<<"A">>), Str(<<".">>)>>), documents |-> Arr(<<>>)]

\* the records of the scoring harness, of the ranking harness and of the
\* chat handler's catalog
Records == {PA, PB, PC, PD}

RankRecords == {PA, PB, PC}

ServerRecords == {PA, PB}

SeqsUpTo(S, n) == UNION {[1..m -> S] : m \in 0..n}

(***************************************************************************)
(* server.js:31-44  scoreProject                                           *)
(***************************************************************************)
\* (project.responsible||{}).name
responsibleName(p) ==
  IF Truthy(p.responsible) THEN p.responsible.name ELSE Undef

\* [name, description, status, responsible name, ...tags, ...document titles]
fieldsOf(p) ==
  <<p.name, p.description, p.status, responsibleName(p)>>
  \o JsOr(p.tags, Arr(<<>>)).v
  \o [i \in 1..Len(JsOr(p.documents, Arr(<<>>)).v) |->
        JsOr(p.documents, Arr(<<>>)).v[i].title]

\* fields.filter(Boolean).join(' ').toLowerCase()
searchText(p) ==
  LET kept == SelectSeq(fieldsOf(p), Truthy)
  IN toLowerCase(join([i \in 1..Len(kept) |-> kept[i].v], <<" ">>))

\* the occurrence count of one term (line 38)
occur(text, term) == matchCount(text, compileRegExp(escapeRegExp(term)))

\* the for loop of lines 36-40
RECURSIVE sumTerms(_, _)
sumTerms(text, terms) ==
  IF terms = <<>> THEN 0
  ELSE (IF terms[1] = <<>> THEN 0 ELSE occur(text, terms[1]))
       + sumTerms(text, Tail(terms))

NameBonus == 3

\* line 42
nameMentioned(q, p) == Truthy(p.name) /\ includes(q, toLowerCase(p.name.v))

scoreProject(qry, p) ==
  LET q == toLowerCase(JsOr(qry, Str(<<>>)).v)
  IN sumTerms(searchText(p), split(q))
     + (IF nameMentioned(q, p) THEN NameBonus ELSE 0)

(***************************************************************************)
(* server.js:46-53  getTopContext                                          *)
(***************************************************************************)
\* line 48: one {p, s} object per catalog entry; p is the entry's position
mapScored(cat, qry) ==
  [i \in 1..Len(cat) |-> [p |-> i, s |-> scoreProject(qry, cat[i])]]

\* ascending instead of descending
compareAscending(a, b) == a.s - b.s

\* line 49: the comparator
compare(a, b) == b.s - a.s

\* x goes before the first element the comparator orders after it
RECURSIVE insertSorted(_, _)
insertSorted(sorted, x) ==
  IF sorted = <<>> THEN <<x>>
  ELSE IF compare(sorted[1], x) > 0 THEN <<x>> \o sorted
  ELSE <<sorted[1]>> \o insertSorted(Tail(sorted), x)

\* Array.prototype.sort (stable)
RECURSIVE sortFrom(_, _, _)
sortFrom(arr, i, acc) ==
  IF i > Len(arr) THEN acc ELSE sortFrom(arr, i + 1, insertSorted(acc, arr[i]))

sort(arr) == sortFrom(arr, 1, <<>>)

\* Array.prototype.slice(0, end)
slice(arr, end) ==
  LET len == Len(arr)
      final == IF end < 0 THEN (IF len + end > 0 THEN len + end ELSE 0)
               ELSE (IF end < len THEN end ELSE len)
  IN SubSeq(arr, 1, final)

\* line 51: .map(({ p }) => p)
mapProject(ranked) == [i \in 1..Len(ranked) |-> ranked[i].p]

\* a relevance floor: records that score 0 are dropped before the cut
topContextFloor(cat, qry, kk) ==
  mapProject(slice(SelectSeq(sort(mapScored(cat, qry)), LAMBDA x : x.s > 0), kk))

topContextOf(cat, qry, kk) == mapProject(slice(sort(mapScored(cat, qry)), kk))

getTopContext(qry, kk) == topContextOf(projects, qry, kk)

(***************************************************************************)
(* Harness for the pure functions: the arguments are drawn at Init, the    *)
(* actions call the function and record what it returned.                  *)
(***************************************************************************)
Requests == 1..NumRequests

NoResponse == [t |-> "none"]

NoCall == [fn |-> "none"]

\* how the provider call of a request stands, besides the results it can
\* resolve to
NotCalled == [t |-> "notcalled"]

Pending == [t |-> "pending"]

Thrown == [t |-> "thrown"]

Rejected == [t |-> "rejected"]

Queries(n) == {Undef} \cup {Str(s) : s \in SeqsUpTo(Chars, n)}

\* no request has arrived
ServerIdle ==
  /\ pc = [r \in Requests |-> "idle"]
  /\ message = [r \in Requests |-> Undef]
  /\ completion = [r \in Requests |-> NotCalled]
  /\ response = [r \in Requests |-> NoResponse]
  /\ contextProjects = [r \in Requests |-> <<>>]
  /\ projectSnippets = [r \in Requests |-> <<>>]
  /\ rankCalls = [r \in Requests |-> 0]
  /\ providerCalls = [r \in Requests |-> 0]

InitRank ==
  /\ projects \in SeqsUpTo(RankRecords, MaxCatalog)
  /\ loaded = projects
  /\ OPENAI_API_KEY = Str(<<>>)
  /\ ServerIdle
  /\ query \in Queries(MaxRankQueryLen)
  /\ k \in (0 - MaxK)..MaxK
  /\ project = Undef
  /\ call = NoCall

CallGetTopContext ==
  /\ call' = [fn |-> "getTopContext", ret |-> getTopContext(query, k)]
  /\ UNCHANGED <<serverVars, query, k, project>>

NextRank == CallGetTopContext

RankSpec == InitRank /\ [][NextRank]_vars

InitScore ==
  /\ projects = <<>>
  /\ loaded = projects
  /\ OPENAI_API_KEY = Str(<<>>)
  /\ ServerIdle
  /\ query \in Queries(MaxQueryLen)
  /\ k = 0
  /\ project \in Records
  /\ call = NoCall

CallScoreProject ==
  /\ call' = [fn |-> "scoreProject", ret |-> scoreProject(query, project)]
  /\ UNCHANGED <<serverVars, query, k, project>>

NextScore == CallScoreProject

ScoreSpec == InitScore /\ [][NextScore]_vars

(***************************************************************************)
(* Properties of getTopContext (RankSpec)                                  *)
(***************************************************************************)
Returned == call.fn = "getTopContext"

ScoreAt(i) == scoreProject(query, projects[i])

\* C4: for k >= 0 getTopContext returns at most k records, each one an entry
\* of the catalog, no entry (by position) twice; a catalog with fewer than k
\* entries is returned whole, zero scores included.
C4_AtMostKFromCatalog ==
  (Returned /\ k >= 0) =>
    /\ Len(call.ret) <= k
    /\ \A i \in 1..Len(call.ret) : call.ret[i] \in 1..Len(projects)
    /\ \A i, j \in 1..Len(call.ret) : call.ret[i] = call.ret[j] => i = j
    /\ Len(projects) < k =>
         {call.ret[i] : i \in 1..Len(call.ret)} = 1..Len(projects)

C4_Witness ==
  /\ Returned
  /\ k > Len(projects)
  /\ Len(projects) >= 2
  /\ \E i \in 1..Len(call.ret) : ScoreAt(call.ret[i]) = 0
  /\ \E i \in 1..Len(call.ret) : ScoreAt(call.ret[i]) > 0

\* C5: getTopContext returns the empty sequence whenever k <= 0 and whenever
\* the catalog is empty.
C5_EmptyForNonPositiveK ==
  (Returned /\ (k <= 0 \/ projects = <<>>)) => call.ret = <<>>

\* C6: the result is ordered by score non-increasing, records of equal score
\* keep their catalog order, and when all records score the same the result
\* is the first k catalog entries in catalog order.
C6_DescendingStable ==
  Returned =>
    /\ \A i, j \in 1..Len(call.ret) :
         i < j =>
           /\ ScoreAt(call.ret[i]) >= ScoreAt(call.ret[j])
           /\ ScoreAt(call.ret[i]) = ScoreAt(call.ret[j])
                => call.ret[i] < call.ret[j]
    /\ ((k >= 0) /\ (\A i, j \in 1..Len(projects) : ScoreAt(i) = ScoreAt(j)))
         => call.ret = [i \in 1..(IF k < Len(projects) THEN k ELSE Len(projects)) |-> i]

C6_Witness ==
  /\ Returned
  /\ Len(call.ret) >= 3
  /\ ScoreAt(call.ret[1]) > ScoreAt(call.ret[2])
  /\ ScoreAt(call.ret[2]) = ScoreAt(call.ret[3])
  /\ call.ret[1] > call.ret[2]
  /\ projects[call.ret[2]] # projects[call.ret[3]]

(***************************************************************************)
(* Properties of scoreProject (ScoreSpec)                                  *)
(***************************************************************************)
Scored == call.fn = "scoreProject"

LowerQuery == IF query.t = "str" THEN toLowerCase(query.v) ELSE <<>>

\* the maximal runs of non-whitespace characters of s, as <<first, last>>
TermRuns(s) ==
  {r \in (1..Len(s)) \X (1..Len(s)) :
     /\ r[1] <= r[2]
     /\ \A i \in r[1]..r[2] : ~IsSpace(s[i])
     /\ r[1] = 1 \/ IsSpace(s[r[1] - 1])
     /\ r[2] = Len(s) \/ IsSpace(s[r[2] + 1])}

Occurrences(text, term) ==
  {i \in 1..(Len(text) - Len(term) + 1) :
     SubSeq(text, i, i + Len(term) - 1) = term}

\* the largest number of pairwise non-overlapping occurrences of term in text
NonOverlapping(text, term) ==
  LET disjoint(S) ==
        \A a, b \in S : a < b => b - a >= Len(term)
      sizes == {Cardinality(S) : S \in {T \in SUBSET Occurrences(text, term) : disjoint(T)}}
  IN CHOOSE n \in sizes : \A m \in sizes : m <= n

RECURSIVE SumOver(_, _, _)
SumOver(runs, s, text) ==
  IF runs = {} THEN 0
  ELSE LET r == CHOOSE x \in runs : TRUE
       IN NonOverlapping(text, SubSeq(s, r[1], r[2]))
          + SumOver(runs \ {r}, s, text)

TermScore == SumOver(TermRuns(LowerQuery), LowerQuery, searchText(project))

IsSubstring(sub, s) ==
  \E i \in 1..(Len(s) + 1) : \E j \in 0..Len(s) : SubSeq(s, i, j) = sub

LowerName == toLowerCase(project.name.v)

\* C7 as stated: the term occurrences, plus 3 whenever the lowercase name is a
\* substring of the lowercase query.
C7_ScoreAsStated ==
  Scored =>
    call.ret = TermScore + (IF IsSubstring(LowerName, LowerQuery) THEN 3 ELSE 0)

\* C7 amended: the term occurrences, plus 3 when the name is non-empty and its
\* lowercase form is a substring of the lowercase query, plus 0 otherwise.
C7_ScoreNonEmptyName ==
  Scored =>
    call.ret = TermScore
               + (IF LowerName # <<>> /\ IsSubstring(LowerName, LowerQuery)
                  THEN 3 ELSE 0)

C7_Witness ==
  /\ Scored
  /\ LowerName # <<>>
  /\ IsSubstring(LowerName, LowerQuery)
  /\ Cardinality(TermRuns(LowerQuery)) >= 2
  /\ TermScore >= 2
  /\ call.ret = TermScore + 3

(***************************************************************************)
(* server.js:63-108  POST /api/chat                                        *)
(***************************************************************************)
TopK == 4

Nullish(x) == x.t \in {"undef", "null"}

Digit(d) == <<"0", "1", "2", "3", "4", "5", "6", "7", "8", "9">>[d + 1]

RECURSIVE NumToString(_)
NumToString(n) ==
  IF n < 10 THEN <<Digit(n)>> ELSE NumToString(n \div 10) \o <<Digit(n % 10)>>

\* ${x} in a template literal
render(x) ==
  CASE x.t = "str" -> x.v
    [] x.t = "num" -> NumToString(x.v)
    [] x.t = "undef" -> <<"undefined">>
    [] x.t = "null" -> <<"null">>
    [] OTHER -> <<"[object Object]">>

\* JSON.stringify of an object: properties whose value is undefined are left out
jsonObject(f) == [x \in {y \in DOMAIN f : f[y].t # "undef"} |-> f[x]]

\* the literals of the source, accents and the em dash written in ASCII
ND == Str(<<"N/D">>)

Dash == Str(<<"-">>)

\* the typeof test left out
invalidMessageFalsyOnly(m) == ~Truthy(m)

\* line 66
invalidMessage(m) == ~Truthy(m) \/ ~IsString(m)

\* (query || '').toLowerCase() of line 32 throws on a truthy non-string
scoreProjectThrows(qry) == ~IsString(JsOr(qry, Str(<<>>)))

getTopContextThrows(qry) == projects # <<>> /\ scoreProjectThrows(qry)

\* (p.responsible&&p.responsible.name)||'N/D'
responsibleOr(p) ==
  JsOr(IF Truthy(p.responsible) THEN p.responsible.name ELSE p.responsible, ND)

\* (p.documents||[]).map(d=>d.title).join(', ') || '-'
documentsOr(p) ==
  LET docs == JsOr(p.documents, Arr(<<>>)).v
      titles == [i \in 1..Len(docs) |->
                   IF Nullish(docs[i].title) THEN <<>> ELSE render(docs[i].title)]
  IN JsOr(Str(join(titles, <<",", " ">>)), Dash)

\* line 73: one block per matched record; the fixed labels of the template
\* are the field names
snippet(p, i) ==
  [n |-> i,
   name |-> render(p.name),
   status |-> render(p.status),
   progress |-> render(JsOr(p.progress, ND)),
   responsible |-> render(responsibleOr(p)),
   lastUpdate |-> render(JsOr(p.lastUpdate, ND)),
   documents |-> render(documentsOr(p)),
   description |-> render(p.description)]

snippetsOf(cat, ctx) == [i \in 1..Len(ctx) |-> snippet(cat[ctx[i]], i)]

\* the key compared with undefined, which line 13 never leaves it
noKeyUndefinedOnly == OPENAI_API_KEY.t = "undef"

\* line 78
noKey == ~Truthy(OPENAI_API_KEY)

\* line 80
localReply(cat, ctx) ==
  IF ctx # <<>>
  THEN LET top == cat[ctx[1]]
       IN Str(<<"Segun el contexto, el proyecto \"+">> \o render(top.name)
              \o <<"+\" esta \"">> \o render(top.status)
              \o <<"\". Responsable: ">> \o render(responsibleOr(top))
              \o <<". Ultima actualizacion: ">>
              \o render(JsOr(top.lastUpdate, ND)) \o <<".">>)
  ELSE Str(<<"No hay datos locales para responder.">>)

\* line 81: the kpis of the local path
localKpis(cat, ctx) ==
  IF ctx # <<>>
  THEN LET top == cat[ctx[1]]
       IN [t |-> "obj",
           f |-> jsonObject([status |-> top.status, progress |-> top.progress,
                             docs |-> Num(Len(JsOr(top.documents, Arr(<<>>)).v)),
                             lastUpdate |-> top.lastUpdate])]
  ELSE Null

\* the kpis taken from the last matched record instead of the first
providerKpisLast(cat, ctx) ==
  IF ctx # <<>>
  THEN LET top == cat[ctx[Len(ctx)]]
       IN [t |-> "obj",
           f |-> jsonObject([status |-> top.status, progress |-> top.progress,
                             docs |-> Num(Len(JsOr(top.documents, Arr(<<>>)).v)),
                             lastUpdate |-> top.lastUpdate])]
  ELSE Null

\* lines 100-101: the kpis of the provider path
providerKpis(cat, ctx) ==
  IF ctx # <<>>
  THEN LET top == cat[ctx[1]]
       IN [t |-> "obj",
           f |-> jsonObject([status |-> top.status, progress |-> top.progress,
                             docs |-> Num(Len(JsOr(top.documents, Arr(<<>>)).v)),
                             lastUpdate |-> top.lastUpdate])]
  ELSE Null

invalidResponse ==
  [status |-> 400, body |-> jsonObject([error |-> Str(<<"Mensaje invalido">>)])]

localResponse(cat, ctx) ==
  [status |-> 200,
   body |-> jsonObject([reply |-> localReply(cat, ctx), kpis |-> localKpis(cat, ctx),
                        usedModel |-> Str(<<"local-fallback">>)])]

\* the catch block answering with the local reply instead of the error
errorFallsBackToLocal == localResponse(<<>>, <<>>)

\* lines 104-107
errorResponse ==
  [status |-> 500, body |-> jsonObject([error |-> Str(<<"Fallo interno de chat">>)])]

NoAnswer == Str(<<"No pude generar una respuesta.">>)

\* line 98: completion.choices?.[0]?.message?.content?.trim() || '...'
\* a property read on undefined/null throws, ?. stops at undefined/null,
\* calling trim on a value that has none throws
extractText(c) ==
  IF Nullish(c) THEN [throws |-> TRUE]
  ELSE LET choices == c.choices
           first == IF Nullish(choices) THEN Undef
                    ELSE IF choices.v = <<>> THEN Undef ELSE choices.v[1]
           msg == IF Nullish(first) THEN Undef ELSE first.message
           content == IF Nullish(msg) THEN Undef ELSE msg.content
       IN IF Nullish(content) THEN [throws |-> FALSE, text |-> NoAnswer]
          ELSE IF ~IsString(content) THEN [throws |-> TRUE]
          ELSE [throws |-> FALSE, text |-> JsOr(Str(trim(content.v)), NoAnswer)]

\* line 103
providerResponse(cat, ctx, text) ==
  [status |-> 200,
   body |-> jsonObject([reply |-> text, kpis |-> providerKpis(cat, ctx),
                        usedModel |-> Str(<<"gpt-4o-mini">>)])]

\* sort() applied to the catalog itself
catalogSortedInPlace(cat, qry) ==
  LET sorted == sort(mapScored(cat, qry))
  IN [i \in 1..Len(cat) |-> cat[sorted[i].p]]

\* lines 47-51: sort() reorders the array map() built, never the catalog
catalogAfterRanking(cat, qry) == cat

(***************************************************************************)
(* The provider's possible results                                         *)
(***************************************************************************)
Completion(choices) == [t |-> "obj", choices |-> choices]

Choice(content) ==
  [t |-> "obj", message |-> [t |-> "obj", content |-> content]]

Completions ==
  {Undef,
   Completion(Undef),
   Completion(Arr(<<Choice(Num(5))>>)),
   Completion(Arr(<<Choice(Str(<<" ">>))>>)),
   Completion(Arr(<<Choice(Str(<<" ", "a", " ">>))>>))}

Messages ==
  {Undef, Num(5), Str(<<>>), Str(<<".">>), Str(<<"A", "a">>)}

\* line 13: process.env.OPENAI_API_KEY || ''
Environment == {Undef, Str(<<>>), Str(<<"k">>)}

Init ==
  /\ projects \in SeqsUpTo(ServerRecords, MaxServerCatalog)
  /\ loaded = projects
  /\ \E env \in Environment : OPENAI_API_KEY = JsOr(env, Str(<<>>))
  /\ ServerIdle
  /\ query = Undef
  /\ k = 0
  /\ project = Undef
  /\ call = NoCall

\* lines 64-91: the handler runs from the arrival of the request to its first
\* response or to the await of the provider call, without interruption
HandleChat(r, m, throws) ==
  /\ pc[r] = "idle"
  /\ message' = [message EXCEPT ![r] = m]
  /\ IF invalidMessage(m)
     THEN /\ throws = FALSE
          /\ response' = [response EXCEPT ![r] = invalidResponse]
          /\ pc' = [pc EXCEPT ![r] = "done"]
          /\ UNCHANGED <<projects, completion, contextProjects, projectSnippets,
                         rankCalls, providerCalls>>
     ELSE /\ rankCalls' = [rankCalls EXCEPT ![r] = @ + 1]
          /\ IF getTopContextThrows(m)
             THEN /\ throws = FALSE
                  /\ response' = [response EXCEPT ![r] = errorResponse]
                  /\ pc' = [pc EXCEPT ![r] = "done"]
                  /\ UNCHANGED <<projects, completion, contextProjects,
                                 projectSnippets, providerCalls>>
             ELSE \E ctx \in {getTopContext(m, TopK)} :
                     /\ projects' = catalogAfterRanking(projects, m)
                     /\ contextProjects' = [contextProjects EXCEPT ![r] = ctx]
                     /\ projectSnippets' =
                          [projectSnippets EXCEPT ![r] = snippetsOf(projects, ctx)]
                     /\ IF noKey
                        THEN /\ throws = FALSE
                             /\ response' =
                                  [response EXCEPT ![r] = localResponse(projects, ctx)]
                             /\ pc' = [pc EXCEPT ![r] = "done"]
                             /\ UNCHANGED <<completion, providerCalls>>
                        ELSE /\ providerCalls' = [providerCalls EXCEPT ![r] = @ + 1]
                             /\ IF throws
                                THEN /\ completion' = [completion EXCEPT ![r] = Thrown]
                                     /\ response' = [response EXCEPT ![r] = errorResponse]
                                     /\ pc' = [pc EXCEPT ![r] = "done"]
                                ELSE /\ completion' = [completion EXCEPT ![r] = Pending]
                                     /\ pc' = [pc EXCEPT ![r] = "awaiting"]
                                     /\ UNCHANGED response
  /\ UNCHANGED <<loaded, OPENAI_API_KEY, harnessVars>>

\* line 91 rejects: control resumes in the catch block
ProviderRejects(r) ==
  /\ pc[r] = "awaiting"
  /\ completion' = [completion EXCEPT ![r] = Rejected]
  /\ response' = [response EXCEPT ![r] = errorResponse]
  /\ pc' = [pc EXCEPT ![r] = "done"]
  /\ UNCHANGED <<projects, loaded, OPENAI_API_KEY, message, contextProjects,
                 projectSnippets, rankCalls, providerCalls, harnessVars>>

\* line 91 resolves: lines 98-103, or the catch block if line 98 throws
ProviderResolves(r, c) ==
  /\ pc[r] = "awaiting"
  /\ completion' = [completion EXCEPT ![r] = c]
  /\ LET got == extractText(c)
     IN response' =
          [response EXCEPT ![r] =
             IF got.throws THEN errorResponse
             ELSE providerResponse(projects, contextProjects[r], got.text)]
  /\ pc' = [pc EXCEPT ![r] = "done"]
  /\ UNCHANGED <<projects, loaded, OPENAI_API_KEY, message, contextProjects,
                 projectSnippets, rankCalls, providerCalls, harnessVars>>

Next ==
  \/ \E r \in Requests, m \in Messages, throws \in BOOLEAN : HandleChat(r, m, throws)
  \/ \E r \in Requests : ProviderRejects(r)
  \/ \E r \in Requests, c \in Completions : ProviderResolves(r, c)

Spec == Init /\ [][Next]_vars

\* The event loop runs the handler of every request delivered to it, whatever
\* other requests are suspended on; nothing makes the provider ever settle.
FairSpec ==
  Spec /\ \A r \in Requests :
            WF_vars(\E m \in Messages, throws \in BOOLEAN : HandleChat(r, m, throws))

(***************************************************************************)
(* Properties of the chat handler (Spec)                                   *)
(***************************************************************************)
Arrived(r) == pc[r] # "idle"

NoCredential == OPENAI_API_KEY = Str(<<>>)

Field(o, n) == IF n \in DOMAIN o THEN o[n] ELSE Undef

OnlyError(resp, status, text) ==
  /\ resp.status = status
  /\ DOMAIN resp.body = {"error"}
  /\ resp.body.error = Str(<<text>>)

Resolved(c) == c.t \notin {"notcalled", "pending", "thrown", "rejected"}

\* a result with a first choice whose message carries a text (or null) content
WellFormed(c) ==
  /\ c.t = "obj"
  /\ c.choices.t = "arr"
  /\ c.choices.v # <<>>
  /\ c.choices.v[1].message.t = "obj"
  /\ c.choices.v[1].message.content.t \in {"str", "null"}

Malformed(c) == Resolved(c) /\ ~WellFormed(c)

\* the result is no object at all, or its content is neither text nor absent
Unreadable(c) ==
  /\ Resolved(c)
  /\ \/ Nullish(c)
     \/ /\ c.choices.t = "arr"
        /\ c.choices.v # <<>>
        /\ c.choices.v[1].message.t = "obj"
        /\ c.choices.v[1].message.content.t \notin {"str", "null", "undef"}

\* C1 as stated: a provider call that throws, rejects or returns a malformed
\* result ends the request with 500 and only the error 'Fallo interno de
\* chat', after exactly one provider call.
C1_FailureIs500 ==
  \A r \in Requests :
    (pc[r] = "done" /\ (completion[r].t \in {"thrown", "rejected"} \/ Malformed(completion[r])))
      => /\ OnlyError(response[r], 500, "Fallo interno de chat")
         /\ providerCalls[r] = 1

\* C1 amended: a provider call that throws or rejects, or whose result is
\* null/undefined or carries a content that is no text, ends the request with
\* 500 and only the error, after exactly one provider call; a result that only
\* lacks choices, message or content is answered 200 with the fixed reply
\* 'No pude generar una respuesta.' and usedModel 'gpt-4o-mini'.
C1_ThrowIs500 ==
  \A r \in Requests :
    pc[r] = "done" =>
      /\ (completion[r].t \in {"thrown", "rejected"} \/ Unreadable(completion[r]))
           => /\ OnlyError(response[r], 500, "Fallo interno de chat")
              /\ providerCalls[r] = 1
      /\ (Malformed(completion[r]) /\ ~Unreadable(completion[r]))
           => /\ response[r].status = 200
              /\ response[r].body.reply = NoAnswer
              /\ response[r].body.usedModel = Str(<<"gpt-4o-mini">>)
              /\ providerCalls[r] = 1

C1_Witness ==
  \E r, s \in Requests :
    /\ pc[r] = "done" /\ pc[s] = "done"
    /\ completion[r] = Rejected
    /\ completion[s] = Completion(Arr(<<Choice(Num(5))>>))
    /\ response[r].status = 500 /\ response[s].status = 500
    /\ projects # <<>>

LocalFallback(r) ==
  /\ pc[r] = "done"
  /\ response[r].status = 200
  /\ response[r].body.usedModel = Str(<<"local-fallback">>)
  /\ providerCalls[r] = 0

\* C2 as stated: without a credential every request whose message is a string
\* ends with 200 and usedModel 'local-fallback', and no provider call.
C2_NoKeyAnyString ==
  \A r \in Requests :
    (Arrived(r) /\ NoCredential /\ message[r].t = "str") => LocalFallback(r)

\* C2 amended: without a credential every request whose message is a
\* non-empty string ends with 200 and usedModel 'local-fallback', for every
\* catalog, and no provider call is issued for it.
C2_NoKeyNonEmptyString ==
  \A r \in Requests :
    (Arrived(r) /\ NoCredential /\ message[r].t = "str" /\ message[r].v # <<>>)
      => LocalFallback(r)

C2_Witness ==
  /\ NoCredential
  /\ projects = <<>>
  /\ \E r \in Requests :
       /\ message[r] = Str(<<"A", "a">>)
       /\ LocalFallback(r)
       /\ response[r].body.kpis = Null

\* C3: a request whose message is missing or not a string ends with 400 and
\* the error 'Mensaje invalido'; neither getTopContext nor the provider is
\* invoked for it, with or without a credential.
C3_InvalidIs400 ==
  \A r \in Requests :
    (Arrived(r) /\ message[r].t # "str")
      => /\ pc[r] = "done"
         /\ OnlyError(response[r], 400, "Mensaje invalido")
         /\ rankCalls[r] = 0
         /\ providerCalls[r] = 0

C3_Witness ==
  /\ ~NoCredential
  /\ projects # <<>>
  /\ \E r, s \in Requests :
       /\ pc[r] = "done" /\ pc[s] = "done"
       /\ message[r] = Undef /\ message[s] = Num(5)
       /\ response[r].status = 400 /\ response[s].status = 400

DocumentCount(p) == IF p.documents.t = "arr" THEN Len(p.documents.v) ELSE 0

\* C8: the kpis of a 200 response depend on the catalog and the message only,
\* on either path and whatever the provider answered: null exactly when the
\* catalog is empty, else status, progress, number of documents and lastUpdate
\* of the first record of getTopContext(message, 4).
C8_KpisLocallyDerived ==
  /\ \A r \in Requests :
       (pc[r] = "done" /\ response[r].status = 200) =>
         /\ (response[r].body.kpis = Null) <=> (projects = <<>>)
         /\ projects # <<>> =>
              \A ctx \in {getTopContext(message[r], 4)} :
                LET top == projects[ctx[1]]
                    kp == response[r].body.kpis.f
                IN
                 /\ DOMAIN kp \subseteq {"status", "progress", "docs", "lastUpdate"}
                 /\ Field(kp, "status") = top.status
                 /\ Field(kp, "progress") = top.progress
                 /\ Field(kp, "docs") = Num(DocumentCount(top))
                 /\ Field(kp, "lastUpdate") = top.lastUpdate
  /\ \A r, s \in Requests :
       (/\ pc[r] = "done" /\ response[r].status = 200
        /\ pc[s] = "done" /\ response[s].status = 200
        /\ message[r] = message[s])
         => response[r].body.kpis = response[s].body.kpis

C8_Witness ==
  \E r, s \in Requests :
    /\ pc[r] = "done" /\ response[r].status = 200
    /\ pc[s] = "done" /\ response[s].status = 200
    /\ message[r] = message[s]
    /\ response[r].body.usedModel = Str(<<"gpt-4o-mini">>)
    /\ response[r].body.reply # response[s].body.reply
    /\ Len(contextProjects[r]) >= 2
    /\ response[r].body.kpis # Null
    /\ projects[contextProjects[r][1]] # projects[contextProjects[r][2]]

ResponsibleAbsent(p) ==
  p.responsible.t = "undef" \/ p.responsible.name.t = "undef"

\* C9: in the context block a field shows its fallback literal only when the
\* record lacks the field: progress shows 'N/D' only without a progress value
\* (a present progress, 0 included, shows as that number), responsible and
\* lastUpdate show 'N/D' only if absent, documents show the dash only if the
\* record has no documents.
C9_FallbackOnlyIfAbsent ==
  \A r \in Requests :
    \A i \in 1..Len(projectSnippets[r]) :
      LET p == projects[contextProjects[r][i]]
          sn == projectSnippets[r][i]
      IN /\ sn.progress = ND.v => p.progress.t = "undef"
         /\ p.progress.t = "num" => sn.progress = NumToString(p.progress.v)
         /\ sn.responsible = ND.v => ResponsibleAbsent(p)
         /\ sn.lastUpdate = ND.v => p.lastUpdate.t = "undef"
         /\ sn.documents = Dash.v => DocumentCount(p) = 0

\* the response of a request that runs alone: a function of its message, the
\* catalog as loaded and the outcome of its own provider call
AloneResponse(m, c) ==
  IF m.t # "str" \/ m.v = <<>> THEN invalidResponse
  ELSE LET ctx == topContextOf(loaded, m, TopK)
       IN IF NoCredential THEN localResponse(loaded, ctx)
          ELSE IF c.t \in {"thrown", "rejected"} THEN errorResponse
          ELSE IF extractText(c).throws THEN errorResponse
          ELSE providerResponse(loaded, ctx, extractText(c).text)

Isolated ==
  /\ projects = loaded
  /\ \A r \in Requests :
       /\ pc[r] = "done" => response[r] = AloneResponse(message[r], completion[r])
       /\ pc[r] # "done" => response[r] = NoResponse
       /\ pc[r] = "awaiting" => completion[r] = Pending

\* C10: in every interleaving the catalog stays as loaded, every response is
\* the one its request would get alone, a request suspended on its provider
\* call has sent nothing before the call settles, and every request is
\* ranked and answered (or reaches its own provider call) even if the
\* provider calls of the other requests never settle.
C10_RequestsIndependent ==
  /\ []Isolated
  /\ \A s \in Requests : <>(pc[s] # "idle")

C10_Witness ==
  \E r, s \in Requests :
    /\ pc[r] = "awaiting"
    /\ pc[s] = "done"
    /\ response[s].status = 200
    /\ rankCalls[r] = 1 /\ rankCalls[s] = 1
    /\ message[r] # message[s]
    /\ Len(projects) >= 2

====
